---- MODULE Spec2Model ----
(***************************************************************************)
(* Voice AI browser client (src/server/livekit/router.js, lines 83-790):   *)
(* the App component (token / running / error / summary), the SessionView  *)
(* component mounted inside LiveKitRoom (transcripts, toolCalls,           *)
(* appointments, ..., reportData), the room event handlers and the         *)
(* end-of-session race between the agent's end_conversation message and    *)
(* the 10 s fallback timer kept in window.summaryFallbackTimer.            *)
(*                                                                         *)
(* React state is modelled by one variable per useState cell.  Every       *)
(* handler is one action; an async handler is cut at each await.  Wall     *)
(* clock values (time, timestamp, duration_seconds) are left out of the    *)
(* records: no branch of the code reads them.                              *)
(***************************************************************************)
EXTENDS Integers, Sequences, FiniteSets, TLC

\* ------------------------------------------------------------------ bounds
MaxSessions == 2      \* SessionView instances mounted in one behaviour
MaxFetches == 1       \* token requests in flight at once
MaxEvents == 3        \* room events delivered in one behaviour
MaxFeed == 52         \* room events fed to one session in the log specifications
MaxMarked == 1        \* marked entries held by a log at once
MaxAttempts == 2       \* summary requests made by one SummaryView
MaxRequests == 2       \* GET /getToken requests handled by the server
MaxRedundant == 7     \* room events delivered in the redundant-channel specification
MaxPending == 2       \* token requests in flight at once in the App specification

\* ------------------------------------------------------- program constants
KeepTranscripts == 49 \* prev.slice(-49) before the new transcript entry
\* one entry more than the code keeps
KeepToolCallsOneMore == 9 + 1

KeepToolCalls == 9    \* prev.slice(-9) before the new tool-call entry

\* -------------------------------------------------------------- JS values
Null == [null |-> TRUE]
Undefined == "undefined"

\* A JS string is a sequence of characters; "" is << >>.
Blank == " "
IsBlank(c) == c = Blank

RECURSIVE TrimStart(_)
TrimStart(s) ==
    IF s # << >> /\ IsBlank(Head(s)) THEN TrimStart(Tail(s)) ELSE s

RECURSIVE TrimEnd(_)
TrimEnd(s) ==
    IF s # << >> /\ IsBlank(s[Len(s)]) THEN TrimEnd(SubSeq(s, 1, Len(s) - 1)) ELSE s

\* String.prototype.trim
Trim(s) == TrimEnd(TrimStart(s))

\* segments.map(s => s.text).join(' ')
RECURSIVE JoinSegments(_)
JoinSegments(segs) ==
    IF segs = << >> THEN << >>
    ELSE IF Len(segs) = 1 THEN segs[1]
    ELSE segs[1] \o <<Blank>> \o JoinSegments(Tail(segs))

\* slice that keeps the first n elements instead of the last n
SliceFirst(s, n) ==
    IF Len(s) <= n THEN s ELSE SubSeq(s, 1, n)

\* slice that keeps every element
SliceLastKeepsAll(s, n) == s

\* Array.prototype.slice(-n) for n > 0
SliceLast(s, n) ==
    IF Len(s) <= n THEN s ELSE SubSeq(s, Len(s) - n + 1, Len(s))

\* Array.prototype.filter
RECURSIVE FilterConfirmed(_)
FilterConfirmed(s) ==
    IF s = << >> THEN << >>
    ELSE IF Head(s).status = "confirmed"
         THEN <<Head(s)>> \o FilterConfirmed(Tail(s))
         ELSE FilterConfirmed(Tail(s))

\* ------------------------------------------------- data-channel payloads
\* An absent JSON field is Undefined; an absent text is << >>, which the
\* code cannot tell from "" (it only tests data.text for truthiness).
Truthy(v) == v \notin {Undefined, ""}

JUndefined == [array |-> FALSE, items |-> << >>]
JArray(items) == [array |-> TRUE, items |-> items]

Appt(id, status) == [id |-> id, status |-> status]

\* What JSON.parse returns for a payload; json = FALSE is a payload on
\* which JSON.parse (or the first field access) throws.
Msg(role, text, tool, status, data) ==
    [json |-> TRUE, role |-> role, text |-> text, tool |-> tool,
     status |-> status, message |-> Undefined, data |-> data,
     phone_number |-> Undefined, name |-> Undefined]

Malformed == [Msg(Undefined, << >>, Undefined, Undefined, JUndefined) EXCEPT !.json = FALSE]

TranscriptMsg(role, text) == Msg(role, text, Undefined, Undefined, JUndefined)

ToolMsg(tool, status, data) == Msg(Undefined, << >>, tool, status, data)

IdentifyMsg(status, phone, name) ==
    [ToolMsg("identify_user", status, JUndefined) EXCEPT !.phone_number = phone, !.name = name]

\* The agent's end_conversation message: its data is the agent's summary.
AgentSummary ==
    [user |-> [phone |-> "555", name |-> "Ann"],
     appointments_booked |-> << >>, transcript |-> << >>,
     cost_breakdown |-> TRUE]

EndConversationMsg(status) ==
    [ToolMsg("end_conversation", status, AgentSummary) EXCEPT !.message = "Session summary"]

\* ------------------------------------------------------------------ state
VARIABLES
    token, running, error, summary,   \* App useState cells
    fetches,                          \* startSession calls awaiting fetch
    sess,                             \* SessionView instances mounted so far
    toolCalls, userInfo, appointments, preferences, transcripts,
    waitingForSummary, reportData, isSessionEnded,   \* SessionView cells
    sending,                          \* handleEndSession awaiting publishData
    timers,                           \* pending setTimeout callbacks
    summaryFallbackTimer,             \* window.summaryFallbackTimer
    crashed,                          \* a render threw: the React tree is gone
    fired,                            \* history: ids of the timers that have run
    received,                         \* history: room events delivered so far
    summaryViewData, loadingAI,       \* SummaryView useState cells: data, loadingAI
    summarizing,                      \* generateAISummary awaiting its fetch
    attempts,                         \* history: requests made by this SummaryView
    requests                          \* server: GET /getToken requests

appVars == <<token, running, error, summary, fetches>>
dataVars == <<toolCalls, userInfo, appointments, preferences, transcripts>>
endVars == <<waitingForSummary, reportData, isSessionEnded>>
sessVars == <<sess, dataVars, endVars>>
asyncVars == <<sending, timers, summaryFallbackTimer>>
histVars == <<fired, received>>
viewVars == <<summaryViewData, loadingAI, summarizing, attempts>>
outsideVars == <<viewVars, requests>>
vars == <<appVars, sessVars, asyncVars, crashed, histVars, outsideVars>>

\* App render: summary ? SummaryView : !running ? start card : LiveKitRoom
View(sum, run) ==
    IF sum # Null THEN "summary" ELSE IF ~run THEN "idle" ELSE "room"

\* SessionView is mounted exactly when App renders LiveKitRoom.
Mounted == ~crashed /\ View(summary, running) = "room"

\* FreshSession with the transcript log kept outside the component
FreshSessionKeepsTranscripts ==
    /\ toolCalls' = << >>
    /\ userInfo' = Null
    /\ appointments' = JArray(<< >>)
    /\ preferences' = << >>
    /\ transcripts' = transcripts
    /\ waitingForSummary' = FALSE
    /\ reportData' = Null
    /\ isSessionEnded' = FALSE

\* useState initial values of SessionView
FreshSession ==
    /\ toolCalls' = << >>
    /\ userInfo' = Null
    /\ appointments' = JArray(<< >>)
    /\ preferences' = << >>
    /\ transcripts' = << >>
    /\ waitingForSummary' = FALSE
    /\ reportData' = Null
    /\ isSessionEnded' = FALSE

\* a GET /getToken request that has not arrived yet
NewRequest ==
    [pc |-> "none", roomName |-> Undefined, identity |-> Undefined,
     responses |-> << >>, calls |-> << >>]

Init ==
    /\ token = ""
    /\ running = FALSE
    /\ error = ""
    /\ summary = Null
    /\ fetches = 0
    /\ sess = 0
    /\ toolCalls = << >>
    /\ userInfo = Null
    /\ appointments = JArray(<< >>)
    /\ preferences = << >>
    /\ transcripts = << >>
    /\ waitingForSummary = FALSE
    /\ reportData = Null
    /\ isSessionEnded = FALSE
    /\ sending = Null
    /\ timers = {}
    /\ summaryFallbackTimer = 0
    /\ crashed = FALSE
    /\ fired = {}
    /\ received = 0
    /\ summaryViewData = Null /\ loadingAI = FALSE /\ summarizing = FALSE /\ attempts = 0
    /\ requests = [i \in 1..MaxRequests |-> NewRequest]


\* ---------------------------------------------------------------- App
\* What a change of App's summary / running cells does to SessionView:
\* rendering LiveKitRoom anew mounts a fresh SessionView; leaving it unmounts
\* the view, whose state is discarded, and disconnects the room.  A
\* publishData still in flight on the disconnected room cannot succeed; its
\* rejection runs only handleEndSession's catch branch, whose setState call
\* reaches the unmounted view and changes nothing, so the send is dropped.
\* SummaryView is mounted while summary is set (useState(summary.data || {}),
\* useState(false)) and its state is discarded when summary is cleared; a
\* summary request still in flight then only reaches the unmounted view.
\* An absent pendingSummary reads as undefined, which is FALSE here.
SummaryData(s) ==
    [base |-> s.data,
     summary_text |-> << >>,
     pendingSummary |-> IF "pendingSummary" \in DOMAIN s.data
                        THEN s.data.pendingSummary ELSE FALSE]

SummaryViewTransition(newSummary) ==
    IF newSummary # Null /\ summary = Null
    THEN /\ summaryViewData' = SummaryData(newSummary)
         /\ loadingAI' = FALSE /\ summarizing' = FALSE /\ attempts' = 0
    ELSE IF newSummary = Null /\ summary # Null
    THEN /\ summaryViewData' = Null
         /\ loadingAI' = FALSE /\ summarizing' = FALSE /\ attempts' = 0
    ELSE UNCHANGED viewVars

SessionTransition(newSummary, newRunning) ==
    LET was == Mounted
        is == ~crashed /\ View(newSummary, newRunning) = "room"
    IN  /\ SummaryViewTransition(newSummary)
        /\ IF is /\ ~was
           THEN sess' = sess + 1 /\ FreshSession /\ sending' = Null
           ELSE IF was /\ ~is
           THEN sess' = sess /\ FreshSession /\ sending' = Null
           ELSE UNCHANGED <<sessVars, sending>>

\* startSession up to its await fetch(...)
StartSession ==
    /\ ~crashed
    /\ View(summary, running) \in {"idle", "summary"}
    /\ error' = ""
    /\ summary' = Null
    /\ fetches' = fetches + 1
    /\ SessionTransition(Null, running)
    /\ UNCHANGED <<token, running, timers, summaryFallbackTimer, crashed, histVars, requests>>

\* startSession after the await: resp.ok and data.token is truthy
FetchOk(tok) ==
    /\ ~crashed
    /\ fetches > 0
    /\ fetches' = fetches - 1
    /\ token' = tok
    /\ running' = TRUE
    /\ SessionTransition(summary, TRUE)
    /\ UNCHANGED <<error, summary, timers, summaryFallbackTimer, crashed, histVars, requests>>

\* startSession after the await: !resp.ok, no token, or fetch rejected
FetchFailReasons ==
    {"Token request failed", "Token missing in response", "Failed to fetch"}

\* FetchFail with setRunning(true) reached on the failure path as well
FetchFailStillRuns(reason) ==
    /\ ~crashed
    /\ fetches > 0
    /\ fetches' = fetches - 1
    /\ error' = reason
    /\ running' = TRUE
    /\ SessionTransition(summary, TRUE)
    /\ UNCHANGED <<token, summary, timers, summaryFallbackTimer, crashed, histVars, requests>>

FetchFail(reason) ==
    /\ ~crashed
    /\ fetches > 0
    /\ fetches' = fetches - 1
    /\ error' = reason
    /\ UNCHANGED <<token, running, summary, sessVars, asyncVars, crashed, histVars, outsideVars>>

\* stopSession with setSummary(summaryData) outside its if
stopSessionClearsSummary(summaryData) ==
    /\ summary' = summaryData
    /\ token' = ""
    /\ running' = FALSE
    /\ SessionTransition(summaryData, FALSE)
    /\ UNCHANGED <<error, fetches, timers, summaryFallbackTimer, crashed, histVars, requests>>

\* stopSession without its setToken("")
stopSessionKeepsToken(summaryData) ==
    /\ summary' = IF summaryData # Null THEN summaryData ELSE summary
    /\ running' = FALSE
    /\ SessionTransition(IF summaryData # Null THEN summaryData ELSE summary, FALSE)
    /\ UNCHANGED <<token, error, fetches, timers, summaryFallbackTimer, crashed, histVars, requests>>

stopSession(summaryData) ==
    /\ summary' = IF summaryData # Null THEN summaryData ELSE summary
    /\ token' = ""
    /\ running' = FALSE
    /\ SessionTransition(IF summaryData # Null THEN summaryData ELSE summary, FALSE)
    /\ UNCHANGED <<error, fetches, timers, summaryFallbackTimer, crashed, histVars, requests>>

\* LiveKitRoom onDisconnected={() => stopSession()}
Disconnected ==
    /\ Mounted
    /\ stopSession(Null)

\* "View Summary & Cost" button: onClick={() => onStop(reportData)}
ViewReport ==
    /\ Mounted
    /\ isSessionEnded
    /\ reportData # Null
    /\ stopSession(reportData)

\* SummaryView onClose={() => setSummary(null)}
CloseSummary ==
    /\ ~crashed
    /\ View(summary, running) = "summary"
    /\ summary' = Null
    /\ SessionTransition(Null, running)
    /\ UNCHANGED <<token, running, error, fetches, timers, summaryFallbackTimer, crashed, histVars, requests>>

\* -------------------------------------------------- SessionView: the end race
\* The values handleEndSession and the timer callback it creates close over:
\* those of the render in which the End Session button was clicked.
Closure ==
    [sess |-> sess, reportData |-> reportData, userInfo |-> userInfo,
     appointments |-> appointments, transcripts |-> transcripts]

\* appointments.filter(a => a.status === "confirmed") throws on a non-array
\* and on an undefined element
FilterThrows(appts) ==
    \/ ~appts.array
    \/ \E i \in 1..Len(appts.items) : appts.items[i] = JUndefined

\* the object the fallback timer passes to setReportData
LocalSummary(c) ==
    [tool |-> "end_conversation",
     status |-> "success",
     data |-> [user |-> IF c.userInfo # Null THEN c.userInfo
                        ELSE [phone |-> "null", name |-> "null"],
               appointments_booked |-> FilterConfirmed(c.appointments.items),
               transcript |-> c.transcripts],
     message |-> "Session ended (local fallback)"]

\* handleEndSession up to its await publishData(...)
HandleEndSession ==
    /\ Mounted
    /\ ~isSessionEnded
    /\ waitingForSummary' = TRUE
    /\ isSessionEnded' = TRUE
    /\ sending' = Closure
    /\ UNCHANGED <<appVars, sess, dataVars, reportData, timers, summaryFallbackTimer, crashed, histVars, outsideVars>>

\* publishData resolved: window.summaryFallbackTimer = setTimeout(..., 10000)
PublishResolved ==
    /\ sending # Null
    /\ timers' = timers \cup {[id |-> sending.sess, c |-> sending]}
    /\ summaryFallbackTimer' = sending.sess
    /\ sending' = Null
    /\ UNCHANGED <<appVars, sessVars, crashed, histVars, outsideVars>>

\* publishData rejected: catch (e) { setWaitingForSummary(false) }
PublishRejected ==
    /\ sending # Null
    /\ waitingForSummary' = FALSE
    /\ sending' = Null
    /\ UNCHANGED <<appVars, sess, dataVars, reportData, isSessionEnded,
                   timers, summaryFallbackTimer, crashed, histVars, outsideVars>>

\* ClearTimeout with the clearing left out: the timer stays pending
ClearTimeoutOmitted(pending, id) == pending

\* clearTimeout(id)
ClearTimeout(pending, id) == {t \in pending : t.id # id}

\* Reaches with the setState calls landing in whichever view is mounted
ReachesAnyView(id) == Mounted

\* A setState call made by code of SessionView instance id takes effect only
\* while that instance is mounted.
Reaches(id) == Mounted /\ sess = id

\* The fallback timer's callback.  It reads the reportData, userInfo,
\* appointments and transcripts of its closure; its setState calls reach the
\* SessionView that created it, and do nothing once that view is unmounted.
TimerFires(t) ==
    /\ t \in timers
    /\ timers' = timers \ {t}
    /\ fired' = fired \cup {t.id}
    /\ received' = received
    /\ IF t.c.reportData = Null /\ Reaches(t.id)
       THEN /\ waitingForSummary' = FALSE
            /\ reportData' = IF FilterThrows(t.c.appointments) THEN reportData
                             ELSE LocalSummary(t.c)
       ELSE UNCHANGED <<waitingForSummary, reportData>>
    /\ UNCHANGED <<appVars, sess, dataVars, isSessionEnded, sending,
                   summaryFallbackTimer, crashed, outsideVars>>

\* ------------------------------------------- SessionView: room event handlers
TranscriptEntry(speaker, text) == [speaker |-> speaker, text |-> text]

\* What the room handlers read and write: the useState cells of the mounted
\* SessionView, the pending timers and whether its render has thrown.
Session ==
    [transcripts |-> transcripts, toolCalls |-> toolCalls, userInfo |-> userInfo,
     appointments |-> appointments, preferences |-> preferences,
     waitingForSummary |-> waitingForSummary, reportData |-> reportData,
     timers |-> timers, crashed |-> crashed]

\* the handlers' setState calls taking effect
Store(st) ==
    /\ transcripts' = st.transcripts
    /\ toolCalls' = st.toolCalls
    /\ userInfo' = st.userInfo
    /\ appointments' = st.appointments
    /\ preferences' = st.preferences
    /\ waitingForSummary' = st.waitingForSummary
    /\ reportData' = st.reportData
    /\ timers' = st.timers
    /\ crashed' = st.crashed

\* the body of handleTranscription
OnTranscription(st, isAgent, segments) ==
    LET speaker == IF isAgent THEN "agent" ELSE "user"
        text == Trim(JoinSegments(segments))
    IN  IF text = << >> THEN st
        ELSE [st EXCEPT !.transcripts =
                 SliceLast(@, KeepTranscripts) \o <<TranscriptEntry(speaker, text)>>]

\* RoomEvent.TranscriptionReceived
HandleTranscription(isAgent, segments) ==
    /\ Mounted
    /\ Store(OnTranscription(Session, isAgent, segments))
    /\ UNCHANGED <<appVars, sess, isSessionEnded, sending, summaryFallbackTimer, fired, outsideVars>>

\* the setTranscripts updater of handleData
DataTranscripts(prev, m) ==
    IF prev # << >> /\ prev[Len(prev)].text = m.text /\ prev[Len(prev)].speaker = m.role
    THEN prev
    ELSE SliceLast(prev, KeepTranscripts) \o <<TranscriptEntry(m.role, m.text)>>

\* ToolName as the specification enumerates it
ToolNames ==
    {"identify_user", "fetch_slots", "book_appointment", "retrieve_appointments",
     "cancel_appointment", "modify_appointment", "capture_preference",
     "end_conversation"}

\* Succeeded with the status test left out
SucceededAnyStatus(m, tool) == m.tool = tool

\* Succeeded taking a tool name it does not know for the one asked about
SucceededAnyTool(m, tool) == (m.tool = tool \/ m.tool \notin ToolNames) /\ m.status = "success"

\* data.tool === tool && data.status === "success"
Succeeded(m, tool) == m.tool = tool /\ m.status = "success"

\* IsTranscriptMsg without the !data.tool test
IsTranscriptMsgAnyTool(m) == Truthy(m.role) /\ m.text # << >>

\* data.role && data.text && !data.tool
IsTranscriptMsg(m) == Truthy(m.role) /\ m.text # << >> /\ ~Truthy(m.tool)

\* DataAppointments with a retrieved list added to the entries held so far
DataAppointmentsMerging(prev, m) ==
    LET retrieved == IF Succeeded(m, "retrieve_appointments")
                     THEN [prev EXCEPT !.items = @ \o m.data.items] ELSE prev
    IN  IF Succeeded(m, "book_appointment")
        THEN [retrieved EXCEPT !.items = @ \o <<m.data>>]
        ELSE retrieved

\* the setAppointments calls of handleData
DataAppointments(prev, m) ==
    LET retrieved == IF Succeeded(m, "retrieve_appointments") THEN m.data ELSE prev
    IN  IF Succeeded(m, "book_appointment")
        THEN [retrieved EXCEPT !.items = @ \o <<m.data>>]
        ELSE retrieved

\* a catch block that records the payload as a failed tool call
ParseFailedLogged ==
    /\ toolCalls' = SliceLast(toolCalls, KeepToolCalls)
                       \o <<[tool |-> Undefined, status |-> "error", message |-> Undefined]>>
    /\ UNCHANGED <<appVars, sess, userInfo, appointments, preferences, transcripts,
                   endVars, asyncVars, crashed, fired, outsideVars>>

\* JSON.parse threw: catch (e) { }
ParseFailed == UNCHANGED <<appVars, sessVars, asyncVars, crashed, fired, outsideVars>>

\* SessionView's render reads appointments.length and apt.status
RenderThrows(appts) == FilterThrows(appts)

\* The body of handleData for a payload that parsed.  There is no branch for
\* cancel_appointment, modify_appointment or capture_preference: those
\* branches exist only in handleToolResult (lines 361-400), which nothing
\* calls.
OnData(st, m) ==
    LET isTool == Truthy(m.tool)
        isEnd == isTool /\ Succeeded(m, "end_conversation")
        newAppts == IF isTool THEN DataAppointments(st.appointments, m) ELSE st.appointments
    IN  [transcripts |-> IF IsTranscriptMsg(m)
                         THEN DataTranscripts(st.transcripts, m) ELSE st.transcripts,
         toolCalls |-> IF isTool
                       THEN SliceLast(st.toolCalls, KeepToolCalls)
                               \o <<[tool |-> m.tool, status |-> m.status, message |-> m.message]>>
                       ELSE st.toolCalls,
         userInfo |-> IF isTool /\ Succeeded(m, "identify_user")
                      THEN [phone |-> m.phone_number, name |-> m.name] ELSE st.userInfo,
         appointments |-> newAppts,
         preferences |-> st.preferences,
         waitingForSummary |-> IF isEnd THEN FALSE ELSE st.waitingForSummary,
         reportData |-> IF isEnd THEN m ELSE st.reportData,
         timers |-> IF isEnd /\ summaryFallbackTimer # 0
                    THEN ClearTimeout(st.timers, summaryFallbackTimer) ELSE st.timers,
         crashed |-> RenderThrows(newAppts)]

\* RoomEvent.DataReceived
HandleData(m) ==
    /\ Mounted
    /\ IF ~m.json
       THEN ParseFailed
       ELSE /\ Store(OnData(Session, m))
            /\ UNCHANGED <<appVars, sess, isSessionEnded, sending, summaryFallbackTimer, fired, outsideVars>>


\* ------------------------------------------------------- specification
\* One-character utterances; a transcription callback carries a list of
\* segment texts.
SegmentLists == {<< <<"a">> >>, << <<" ">>, <<"b">> >>}

\* Payloads received on the data channel.
RaceMsgs ==
    {Malformed,
     TranscriptMsg("agent", <<"a">>),
     IdentifyMsg("success", "555", "Ann"),
     ToolMsg("book_appointment", "success", Appt(1, "confirmed")),
     ToolMsg("cancel_appointment", "success", Appt(1, Undefined)),
     EndConversationMsg("success")}

\* The guards below only bound the model: sessions mounted, requests in
\* flight, and room events delivered.
CanStart == fetches < MaxFetches /\ sess + fetches < MaxSessions
CanReceive == received < MaxEvents

\* a room event delivered to the handlers of the mounted SessionView
Deliver(handler) ==
    /\ CanReceive
    /\ handler
    /\ received' = received + 1

Next ==
    \/ CanStart /\ StartSession
    \/ FetchOk("jwt")
    \/ \E r \in FetchFailReasons : FetchFail(r)
    \/ Disconnected
    \/ ViewReport
    \/ CloseSummary
    \/ HandleEndSession
    \/ PublishResolved
    \/ PublishRejected
    \/ \E t \in timers : TimerFires(t)
    \/ \E a \in BOOLEAN, segs \in SegmentLists :
          Deliver(HandleTranscription(a, segs))
    \/ \E m \in RaceMsgs : Deliver(HandleData(m))

Spec == Init /\ [][Next]_vars


\* Armed timers are assumed to fire and a publishData call to settle.
FairSpec ==
    /\ Spec
    /\ WF_vars(\E t \in timers : TimerFires(t))
    /\ WF_vars(PublishResolved \/ PublishRejected)

\* ---------------------------------------------------------------- claims
RemoteReport == EndConversationMsg("success")

IsLocalReport(r) ==
    IF r = Null THEN FALSE ELSE r.message = "Session ended (local fallback)"

\* pending fallback timers armed by SessionView instance s
TimersOf(pending, s) == {t \in pending : t.id = s}

\* C1: after the end action, once the remote end_conversation success has
\* been stored, the fallback timer of the session firing leaves reportData
\* equal to the remote payload.
C1_TimerKeepsRemoteReport ==
    [][\A t \in timers :
          (Mounted /\ isSessionEnded /\ t.id = sess /\ reportData = RemoteReport
             /\ TimerFires(t))
          => reportData' = RemoteReport]_vars

\* C2: once the fallback timer has stored the local summary, a data-channel
\* message processed while the view is still mounted leaves reportData equal
\* to that local summary.
C2_RemoteAfterTimerIsNoOp ==
    [][\A m \in RaceMsgs :
          (Mounted /\ IsLocalReport(reportData) /\ HandleData(m))
          => reportData' = reportData]_vars

\* C3: after the end action a summary eventually becomes available in the
\* session (or the session is left), whether the send succeeds or fails,
\* given that armed timers fire and the send settles (FairSpec).
C3_SummaryEventually ==
    (Mounted /\ isSessionEnded) ~> (reportData # Null \/ ~Mounted)

\* C4: when publishData rejects, the fallback timer of the session is armed
\* and no summary is produced by that step.
C4_RejectedSendArmsTimer ==
    [][PublishRejected
          => (TimersOf(timers', sess) # {} /\ reportData' = reportData)]_vars

\* C5: a session in which the end action was issued is left only by a step
\* that sets the App-level summary.
C5_EndedSessionLeavesSummary ==
    [][(Mounted /\ isSessionEnded /\ ~Mounted') => summary' # Null]_vars

\* C6: a remote end_conversation success processed while the session's
\* fallback timer is pending stores the remote message and removes the
\* timer, and a timer so cancelled never runs.
C6_RemoteCancelsArmedTimer ==
    [][/\ (Mounted /\ TimersOf(timers, sess) # {} /\ HandleData(RemoteReport))
          => (reportData' = RemoteReport /\ TimersOf(timers', sess) = {})
       /\ (Mounted /\ summaryFallbackTimer = sess /\ TimersOf(timers, sess) = {}
             /\ sess \notin fired)
          => sess \notin fired']_vars

\* C6 witness: the session armed its timer, the remote message was stored,
\* the timer is gone and has not run.
C6_Witness ==
    /\ Mounted
    /\ isSessionEnded
    /\ summaryFallbackTimer = sess
    /\ TimersOf(timers, sess) = {}
    /\ sess \notin fired
    /\ reportData = RemoteReport

\* C7: a summary stored by the fallback timer carries pendingSummary = true
\* in its data.
C7_LocalReportFlagged ==
    (Mounted /\ IsLocalReport(reportData))
       => ("pendingSummary" \in DOMAIN reportData.data
             /\ reportData.data.pendingSummary = TRUE)

\* C8: the summary the fallback timer stores holds the transcripts and the
\* confirmed appointments of the session as they are when the timer fires.
C8_LocalReportIsCurrent ==
    [][\A t \in timers :
          (Mounted /\ t.id = sess /\ TimerFires(t) /\ reportData' # reportData)
          => /\ reportData'.data.transcript = transcripts
             /\ reportData'.data.appointments_booked
                   = FilterConfirmed(appointments.items)]_vars

\* prev with the status of every entry whose id is id set to "cancelled"
WithCancelled(appts, id) ==
    [appts EXCEPT !.items =
        [i \in 1..Len(@) |-> IF @[i].id = id THEN [@[i] EXCEPT !.status = "cancelled"]
                             ELSE @[i]]]

CancelMsg == ToolMsg("cancel_appointment", "success", Appt(1, Undefined))

\* C9: a cancel_appointment success received on the data channel sets the
\* status of the entry with that id to "cancelled" and changes nothing else
\* of appointments.
C9_CancelFlipsStatus ==
    [][(Mounted /\ HandleData(CancelMsg))
          => appointments' = WithCancelled(appointments, CancelMsg.data.id)]_vars

\* C10: the transcript log never holds two adjacent entries with the same
\* speaker and text.
C10_NoAdjacentDuplicates ==
    \A i \in 1..(Len(transcripts) - 1) : transcripts[i] # transcripts[i + 1]


\* ------------------------------------------------ the two capped logs
\* A SessionView just mounted by the first successful startSession.
LiveInit ==
    /\ token = "jwt" /\ running = TRUE /\ error = "" /\ summary = Null
    /\ fetches = 0 /\ sess = 1
    /\ toolCalls = << >> /\ userInfo = Null /\ appointments = JArray(<< >>)
    /\ preferences = << >> /\ transcripts = << >>
    /\ waitingForSummary = FALSE /\ reportData = Null /\ isSessionEnded = FALSE
    /\ sending = Null /\ timers = {} /\ summaryFallbackTimer = 0
    /\ crashed = FALSE /\ fired = {} /\ received = 0
    /\ summaryViewData = Null /\ loadingAI = FALSE /\ summarizing = FALSE /\ attempts = 0
    /\ requests = [i \in 1..MaxRequests |-> NewRequest]

\* a long run of room events delivered to one mounted SessionView
Feed(handler) ==
    /\ received < MaxFeed
    /\ handler
    /\ received' = received + 1

\* Entries that differ from the bulk of the feed; the guards keep at most
\* MaxMarked of them in a log at a time.
MarkedFragments(log) == {i \in 1..Len(log) : log[i].text = <<"b">>}
MarkedCalls(log) == {i \in 1..Len(log) : log[i].status = "error"}

TranscriptLogNext ==
    \/ Feed(HandleTranscription(FALSE, << <<"a">> >>))
    \/ /\ Cardinality(MarkedFragments(transcripts)) < MaxMarked
       /\ Feed(HandleData(TranscriptMsg("agent", <<"b">>)))

TranscriptLogSpec == LiveInit /\ [][TranscriptLogNext]_vars

\* C11: in every reachable state the transcript log holds at most 50
\* entries, whatever the number and interleaving of fragments from the
\* transcription callback and from the data channel.
C11_TranscriptsAtMostFifty == Len(transcripts) <= 50

\* the log is full and more fragments than it holds have been appended
C11_Witness == Len(transcripts) = 50 /\ received > 50

ToolFeedMsgs ==
    {ToolMsg("fetch_slots", "success", JUndefined),
     TranscriptMsg("agent", <<"a">>)}

MarkedToolMsg == ToolMsg("unknown_tool", "error", JUndefined)

ToolLogNext ==
    \/ \E m \in ToolFeedMsgs : Feed(HandleData(m))
    \/ /\ Cardinality(MarkedCalls(toolCalls)) < MaxMarked
       /\ Feed(HandleData(MarkedToolMsg))

ToolLogSpec == LiveInit /\ [][ToolLogNext]_vars

ToolCallEntry(m) == [tool |-> m.tool, status |-> m.status, message |-> m.message]

\* the log with its oldest entry dropped when it already holds 10
EvictOldest(log) == IF Len(log) = 10 THEN Tail(log) ELSE log

\* C12: the tool-call log never holds more than 10 entries, and every
\* received message with a tool field appends exactly one entry, the oldest
\* entry being evicted when the log is full and nothing being thrown.
C12_ToolCallsAtMostTen ==
    /\ [](Len(toolCalls) <= 10)
    /\ [][\A m \in ToolFeedMsgs \cup {MarkedToolMsg} :
            (Truthy(m.tool) /\ HandleData(m)) =>
                /\ toolCalls' = EvictOldest(toolCalls) \o <<ToolCallEntry(m)>>
                /\ ~crashed']_vars

\* the log is full, and its marked entry has moved to the front: the next
\* tool message evicts it
C12_Witness ==
    /\ Len(toolCalls) = 10
    /\ MarkedCalls(toolCalls) = {1}
    /\ received > 10

\* ------------------------------------------- one session, every payload
\* a tool result carrying every field a branch of handleData reads
FullToolMsg(tool, status, data) ==
    [ToolMsg(tool, status, data) EXCEPT !.phone_number = "777", !.name = "Bob",
                                        !.message = "note"]

ErrorData(tool) ==
    IF tool = "retrieve_appointments" THEN JArray(<<Appt(2, "confirmed")>>)
    ELSE IF tool = "end_conversation" THEN AgentSummary
    ELSE Appt(2, "confirmed")

\* status "error", every tool name
ErrorMsgs ==
    {FullToolMsg(t, "error", ErrorData(t)) : t \in ToolNames \cup {"unknown_tool"}}

\* a tool name outside ToolNames, either status
UnknownToolMsgs ==
    {FullToolMsg("unknown_tool", st, JUndefined) : st \in {"success", "error"}}

\* {tool, status, role, text} in one payload
MixedMsg ==
    [ToolMsg("fetch_slots", "success", JUndefined) EXCEPT !.role = "agent", !.text = <<"a">>]

\* {role, text} with a text of one space
BlankTranscriptMsg == TranscriptMsg("agent", <<Blank>>)

\* capture_preference success with its payload
PreferenceMsg == ToolMsg("capture_preference", "success", [preference |-> "morning"])

\* book_appointment success with the appointment booked
BookMsg == ToolMsg("book_appointment", "success", Appt(1, "confirmed"))

\* retrieve_appointments success with a list of one appointment
RetrieveMsg == ToolMsg("retrieve_appointments", "success", JArray(<<Appt(3, "confirmed")>>))

EventMsgs ==
    {Malformed, TranscriptMsg("agent", <<"a">>), BlankTranscriptMsg, MixedMsg,
     IdentifyMsg("success", "555", "Ann"), EndConversationMsg("success"),
     PreferenceMsg, BookMsg, RetrieveMsg}
    \cup ErrorMsgs \cup UnknownToolMsgs

\* segment lists of a transcription callback: none, blank ones, one word
EventSegmentLists == {<< >>, << <<Blank>> >>, << <<Blank>>, <<Blank>> >>, << <<"a">> >>}

EventNext ==
    \/ HandleEndSession
    \/ PublishResolved
    \/ PublishRejected
    \/ \E t \in timers : TimerFires(t)
    \/ \E a \in BOOLEAN, segs \in EventSegmentLists : Deliver(HandleTranscription(a, segs))
    \/ \E m \in EventMsgs : Deliver(HandleData(m))

EventSpec == LiveInit /\ [][EventNext]_vars

\* C13: a payload that is not valid JSON changes no session state, nothing
\* is thrown out of the handler, and so whatever arrives afterwards meets
\* exactly the state it would have met without the payload.
C13_MalformedChangesNothing ==
    [][HandleData(Malformed) => UNCHANGED <<appVars, sessVars, asyncVars, crashed>>]_vars

\* a payload has been delivered to a fresh session and nothing shows it
C13_Witness ==
    /\ Mounted
    /\ received = 1
    /\ toolCalls = << >> /\ transcripts = << >> /\ userInfo = Null
    /\ reportData = Null /\ ~isSessionEnded

\* C14: no entry of the transcript log has a text that is empty or only
\* whitespace, whichever channel the fragment came from.
C14_NoBlankTranscript ==
    \A i \in 1..Len(transcripts) : Trim(transcripts[i].text) # << >>

\* C15: a payload with a tool field and role and text fields is handled as a
\* tool result only: one entry more in the tool-call log, the transcript log
\* as it was.
C15_ToolFieldWins ==
    [][HandleData(MixedMsg) =>
          /\ transcripts' = transcripts
          /\ toolCalls' = EvictOldest(toolCalls) \o <<ToolCallEntry(MixedMsg)>>]_vars

\* the mixed payload is in the tool-call log and the transcript log is empty
C15_Witness ==
    /\ toolCalls # << >>
    /\ toolCalls[Len(toolCalls)] = ToolCallEntry(MixedMsg)
    /\ transcripts = << >>

\* C16: a tool result with status "error", whatever its tool name, appends
\* one entry to the tool-call log, leaves userInfo, appointments,
\* preferences and reportData as they were and leaves the fallback timer
\* pending.
C16_ErrorOnlyLogged ==
    [][\A m \in ErrorMsgs : HandleData(m) =>
          /\ toolCalls' = EvictOldest(toolCalls) \o <<ToolCallEntry(m)>>
          /\ UNCHANGED <<userInfo, appointments, preferences, reportData,
                         timers, summaryFallbackTimer>>]_vars

\* a failed end_conversation was logged while the fallback timer was armed:
\* the timer is still pending and there is no report
C16_Witness ==
    /\ Mounted
    /\ toolCalls # << >>
    /\ toolCalls[Len(toolCalls)] = ToolCallEntry(FullToolMsg("end_conversation", "error", AgentSummary))
    /\ TimersOf(timers, sess) # {}
    /\ summaryFallbackTimer = sess
    /\ reportData = Null

\* C17: a tool result whose tool name is not in ToolNames is appended to the
\* tool-call log and changes nothing else of the session, whether its status
\* is "success" or "error".
C17_UnknownToolOnlyLogged ==
    [][\A m \in UnknownToolMsgs : HandleData(m) =>
          /\ toolCalls' = EvictOldest(toolCalls) \o <<ToolCallEntry(m)>>
          /\ UNCHANGED <<appVars, sess, userInfo, appointments, preferences,
                         transcripts, endVars, asyncVars, crashed>>]_vars

\* a successful result of an unknown tool is the only thing in the session
C17_Witness ==
    /\ Mounted
    /\ toolCalls = <<ToolCallEntry(FullToolMsg("unknown_tool", "success", JUndefined))>>
    /\ userInfo = Null /\ appointments = JArray(<< >>) /\ reportData = Null

\* ------------------------------------- the immediate-end build (827-1037)
\* The second App / SessionView pair of the source has the same App and the
\* same room handlers, but no report cell, no "View Summary" button and no
\* fallback timer: both ways of ending call onStop at once.

\* the object handleEndSession passes to onStop
PreliminarySummary ==
    [tool |-> "end_conversation",
     status |-> "success",
     data |-> [user |-> IF userInfo # Null THEN userInfo
                        ELSE [phone |-> "null", name |-> "null"],
               appointments_booked |-> FilterConfirmed(appointments.items),
               preferences |-> preferences,
               transcript |-> transcripts,
               pendingSummary |-> TRUE],
     message |-> "Session ended"]

\* "End Session" button: onStop(preliminarySummary)
HandleEndSessionImmediate ==
    /\ Mounted
    /\ stopSession(PreliminarySummary)

\* RoomEvent.DataReceived: as handleData of the other build, except that a
\* successful end_conversation calls onStop(data)
HandleDataImmediate(m) ==
    IF m.json /\ Truthy(m.tool) /\ Succeeded(m, "end_conversation")
    THEN /\ Mounted
         /\ summary' = m
         /\ token' = ""
         /\ running' = FALSE
         /\ SessionTransition(m, FALSE)
         /\ UNCHANGED <<error, fetches, timers, summaryFallbackTimer, crashed, fired, requests>>
    ELSE HandleData(m)

\* ---- SummaryView (495-565; the same component in both builds)
\* "Generate AI Summary" button, rendered when !summaryText &&
\* data.pendingSummary and disabled while loadingAI: generateAISummary up to
\* its await fetch(...)
GenerateAISummary ==
    /\ ~crashed
    /\ View(summary, running) = "summary"
    /\ summaryViewData.summary_text = << >>
    /\ summaryViewData.pendingSummary
    /\ ~loadingAI
    /\ loadingAI' = TRUE
    /\ summarizing' = TRUE
    /\ attempts' = attempts + 1
    /\ UNCHANGED <<summaryViewData, appVars, sessVars, asyncVars, crashed, histVars, requests>>

\* the response carries a non-empty summary_text
SummaryOk(text) ==
    /\ summarizing
    /\ summaryViewData' = [summaryViewData EXCEPT !.summary_text = text,
                                                  !.pendingSummary = FALSE]
    /\ loadingAI' = FALSE
    /\ summarizing' = FALSE
    /\ UNCHANGED <<attempts, appVars, sessVars, asyncVars, crashed, histVars, requests>>

\* fetch rejected; resp.json() rejected; a body without summary_text (the
\* server's {error} replies, or an empty text)
SummaryFailures == {"fetch rejected", "body not JSON", "no summary_text"}

\* SummaryFail with setLoadingAI(false) reached on the success path only
SummaryFailKeepsLoading(kind) ==
    /\ summarizing
    /\ summarizing' = FALSE
    /\ UNCHANGED <<summaryViewData, loadingAI, attempts, appVars, sessVars, asyncVars,
                   crashed, histVars, requests>>

\* the catch block, or the skipped if (result.summary_text); then finally
SummaryFail(kind) ==
    /\ summarizing
    /\ loadingAI' = FALSE
    /\ summarizing' = FALSE
    /\ UNCHANGED <<summaryViewData, attempts, appVars, sessVars, asyncVars,
                   crashed, histVars, requests>>

ImmediateNext ==
    \/ CanStart /\ StartSession
    \/ FetchOk("jwt")
    \/ \E r \in FetchFailReasons : FetchFail(r)
    \/ Disconnected
    \/ CloseSummary
    \/ HandleEndSessionImmediate
    \/ \E a \in BOOLEAN, segs \in SegmentLists : Deliver(HandleTranscription(a, segs))
    \/ \E m \in RaceMsgs : Deliver(HandleDataImmediate(m))
    \/ attempts < MaxAttempts /\ GenerateAISummary
    \/ SummaryOk(<<"s">>)
    \/ \E k \in SummaryFailures : SummaryFail(k)

ImmediateSpec == Init /\ [][ImmediateNext]_vars

\* Phase of the application: Summarized while App shows SummaryView, Ending
\* once the user has ended the mounted session, Live while it is mounted and
\* not ended, Idle otherwise.
Phase ==
    IF View(summary, running) = "summary" THEN "Summarized"
    ELSE IF Mounted /\ isSessionEnded THEN "Ending"
    ELSE IF Mounted THEN "Live"
    ELSE "Idle"

\* C18: the phase only moves forward.  Summarized is entered only from
\* Ending or by the user's end action itself; a session that is Ending never
\* becomes Live again; and Summarized is left only by closing the summary or
\* by starting a new session.
C18_PhaseMovesForward ==
    [][/\ (Phase # "Summarized" /\ Phase' = "Summarized")
            => (Phase = "Ending" \/ HandleEndSessionImmediate)
       /\ (Phase = "Ending" /\ sess' = sess) => Phase' # "Live"
       /\ (Phase = "Summarized" /\ Phase' # "Summarized")
            => (CloseSummary \/ StartSession)]_vars

\* C19: a room disconnect while the session is Live, the user not having
\* ended it, puts the application back to Idle with running false, the token
\* empty and summary still null.
C19_DisconnectGoesIdle ==
    [][(Phase = "Live" /\ Disconnected) =>
          /\ running' = FALSE
          /\ token' = ""
          /\ summary' = Null
          /\ Phase' = "Idle"]_vars

\* a session was mounted and is gone, and nothing that could have produced
\* a report has happened: no room event, no timer armed or run
C19_Witness ==
    /\ Phase = "Idle" /\ sess = 1 /\ fetches = 0
    /\ token = "" /\ summary = Null
    /\ received = 0 /\ fired = {} /\ timers = {} /\ summaryFallbackTimer = 0

\* C20: a token request that fails (status not 2xx, no token in the body, or
\* fetch rejected) leaves running and token as they were, mounts no
\* SessionView, makes no phase Live and sets a non-empty error message.
C20_FailedStartStaysIdle ==
    [][\A r \in FetchFailReasons : FetchFail(r) =>
          /\ running' = running
          /\ token' = token
          /\ sess' = sess
          /\ (Phase # "Live" => Phase' # "Live")
          /\ error' # ""]_vars

\* the only request made has failed: the start card shows the error and no
\* session was ever mounted
C20_Witness ==
    /\ error \in FetchFailReasons
    /\ Phase = "Idle" /\ ~running /\ token = ""
    /\ sess = 0 /\ fetches = 0

\* C21: starting a session clears App's error and summary, and every
\* SessionView that is mounted starts from the empty aggregate with no
\* summary shown: nothing of an earlier session is in it.
C21_NewSessionIsFresh ==
    [][/\ StartSession => (error' = "" /\ summary' = Null)
       /\ (~Mounted /\ Mounted') =>
             /\ sess' = sess + 1
             /\ summary' = Null
             /\ toolCalls' = << >> /\ transcripts' = << >> /\ preferences' = << >>
             /\ appointments' = JArray(<< >>) /\ userInfo' = Null
             /\ reportData' = Null /\ ~isSessionEnded' /\ ~waitingForSummary']_vars

\* a second session is mounted and still empty; the first one was ended and
\* its fallback timer has run
C21_Witness ==
    /\ Mounted /\ sess = 2 /\ 1 \in fired
    /\ toolCalls = << >> /\ transcripts = << >> /\ userInfo = Null
    /\ reportData = Null /\ ~isSessionEnded

\* C22: a capture_preference success received on the data channel appends
\* its payload as the last element of preferences and leaves the earlier
\* elements as they were.
C22_PreferenceAppended ==
    [][HandleData(PreferenceMsg) => preferences' = preferences \o <<PreferenceMsg.data>>]_vars

\* ------------------------------------------------- redundant channels
\* Each utterance is delivered once by each channel, with no other fragment
\* in between: the agent's "a" by the data channel first, the user's "b" by
\* the transcription callback first.
LastIs(speaker, text) ==
    /\ transcripts # << >>
    /\ transcripts[Len(transcripts)] = TranscriptEntry(speaker, text)

Redundant(handler) ==
    /\ received < MaxRedundant
    /\ handler
    /\ received' = received + 1

RedundantNext ==
    \/ ~LastIs("agent", <<"a">>) /\ Redundant(HandleData(TranscriptMsg("agent", <<"a">>)))
    \/ LastIs("agent", <<"a">>) /\ Redundant(HandleTranscription(TRUE, << <<"a">> >>))
    \/ ~LastIs("user", <<"b">>) /\ Redundant(HandleTranscription(FALSE, << <<"b">> >>))
    \/ LastIs("user", <<"b">>) /\ Redundant(HandleData(TranscriptMsg("user", <<"b">>)))

RedundantSpec == LiveInit /\ [][RedundantNext]_vars

\* C23: the second delivery of an utterance, by the channel that did not
\* deliver it first and with no fragment in between, adds no entry to the
\* transcript log, whichever channel came first.
C23_SecondChannelAddsNothing ==
    [][/\ (LastIs("agent", <<"a">>) /\ HandleTranscription(TRUE, << <<"a">> >>))
            => transcripts' = transcripts
       /\ (LastIs("user", <<"b">>) /\ HandleData(TranscriptMsg("user", <<"b">>)))
            => transcripts' = transcripts]_vars

\* C24: a summary request that fails (fetch rejected, body not JSON, or no
\* summary_text in it) leaves the summary data as it was, with summary_text
\* unset and pendingSummary unchanged, puts loadingAI back to false and
\* leaves the button that issues the request enabled.
C24_FailedSummaryCanRetry ==
    [][\A k \in SummaryFailures : SummaryFail(k) =>
          /\ summaryViewData' = summaryViewData
          /\ summaryViewData'.summary_text = << >>
          /\ summaryViewData'.pendingSummary
          /\ ~loadingAI']_vars

\* the first request has failed and the second one is in flight
C24_Witness ==
    /\ View(summary, running) = "summary"
    /\ attempts = 2 /\ summarizing /\ loadingAI
    /\ summaryViewData.summary_text = << >>

\* --------------------------------------- server: GET /getToken (23-78)
\* Each request runs the handler on its own; pc is the await it stands at.
\* calls lists the service calls made for it, responses what was sent.
QueryValues == {Undefined, "", "r"}

Call(name, ok) == [call |-> name, ok |-> ok]
Response(status, body) == [status |-> status, body |-> body]

\* the handler up to its first await
Arrive(i, roomName, identity) ==
    /\ requests[i].pc = "none"
    /\ requests' =
          [requests EXCEPT ![i] =
              IF ~Truthy(roomName) \/ ~Truthy(identity)
              THEN [@ EXCEPT !.pc = "done", !.roomName = roomName, !.identity = identity,
                             !.responses = @ \o <<Response(400, "error")>>]
              ELSE [@ EXCEPT !.pc = "createRoom", !.roomName = roomName,
                             !.identity = identity]]
    /\ UNCHANGED <<appVars, sessVars, asyncVars, crashed, histVars, viewVars>>

\* await roomService.createRoom(...) settles
CreateRoom(i, ok) ==
    /\ requests[i].pc = "createRoom"
    /\ requests' =
          [requests EXCEPT ![i] =
              [@ EXCEPT !.pc = IF ok THEN "delay" ELSE "updateRoomMetadata",
                        !.calls = @ \o <<Call("createRoom", ok)>>]]
    /\ UNCHANGED <<appVars, sessVars, asyncVars, crashed, histVars, viewVars>>

\* UpdateRoomMetadata without the inner try: the rejection reaches the outer
\* catch block
UpdateRoomMetadataUncaught(i, ok) ==
    /\ requests[i].pc = "updateRoomMetadata"
    /\ requests' =
          [requests EXCEPT ![i] =
              IF ok
              THEN [@ EXCEPT !.pc = "delay",
                             !.calls = @ \o <<Call("updateRoomMetadata", ok)>>]
              ELSE [@ EXCEPT !.pc = "done",
                             !.calls = @ \o <<Call("updateRoomMetadata", ok)>>,
                             !.responses = @ \o <<Response(500, "error")>>]]
    /\ UNCHANGED <<appVars, sessVars, asyncVars, crashed, histVars, viewVars>>

\* await roomService.updateRoomMetadata(...) settles; a rejection is ignored
UpdateRoomMetadata(i, ok) ==
    /\ requests[i].pc = "updateRoomMetadata"
    /\ requests' =
          [requests EXCEPT ![i] =
              [@ EXCEPT !.pc = "delay",
                        !.calls = @ \o <<Call("updateRoomMetadata", ok)>>]]
    /\ UNCHANGED <<appVars, sessVars, asyncVars, crashed, histVars, viewVars>>

\* the 200 ms setTimeout
Delay(i) ==
    /\ requests[i].pc = "delay"
    /\ requests' = [requests EXCEPT ![i] = [@ EXCEPT !.pc = "toJwt"]]
    /\ UNCHANGED <<appVars, sessVars, asyncVars, crashed, histVars, viewVars>>

\* new AccessToken, addGrant and await at.toJwt(): res.json({ token }), or
\* the outer catch block with status 500
ToJwt(i, ok) ==
    /\ requests[i].pc = "toJwt"
    /\ requests' =
          [requests EXCEPT ![i] =
              [@ EXCEPT !.pc = "done",
                        !.calls = @ \o <<Call("toJwt", ok)>>,
                        !.responses = @ \o <<IF ok THEN Response(200, "token")
                                             ELSE Response(500, "error")>>]]
    /\ UNCHANGED <<appVars, sessVars, asyncVars, crashed, histVars, viewVars>>

RouteNext ==
    \E i \in 1..MaxRequests :
        \/ \E rn \in QueryValues, id \in QueryValues : Arrive(i, rn, id)
        \/ \E ok \in BOOLEAN : CreateRoom(i, ok)
        \/ \E ok \in BOOLEAN : UpdateRoomMetadata(i, ok)
        \/ Delay(i)
        \/ \E ok \in BOOLEAN : ToJwt(i, ok)

RouteSpec == Init /\ [][RouteNext]_vars

Missing(r) == ~Truthy(r.roomName) \/ ~Truthy(r.identity)

\* C25: a request never gets more than one response, and once its handler
\* has finished it has exactly one: 400 with an error and no service call
\* made when roomName or identity is missing; otherwise token generation was
\* attempted, whatever became of createRoom and updateRoomMetadata, and the
\* response is 200 with the token when it succeeded and 500 with an error
\* when it failed.
C25_OneResponse ==
    \A i \in 1..MaxRequests :
        LET r == requests[i]
        IN  /\ Len(r.responses) <= 1
            /\ r.pc = "done" =>
                  /\ Len(r.responses) = 1
                  /\ IF Missing(r)
                     THEN r.responses[1] = Response(400, "error") /\ r.calls = << >>
                     ELSE /\ r.calls # << >>
                          /\ r.calls[Len(r.calls)].call = "toJwt"
                          /\ r.responses[1] = IF r.calls[Len(r.calls)].ok
                                              THEN Response(200, "token")
                                              ELSE Response(500, "error")

\* both room calls have failed and the token was still issued
C25_Witness ==
    \E i \in 1..MaxRequests :
        /\ requests[i].pc = "done"
        /\ requests[i].calls = <<Call("createRoom", FALSE),
                                 Call("updateRoomMetadata", FALSE), Call("toJwt", TRUE)>>
        /\ requests[i].responses = <<Response(200, "token")>>

\* C26: once the race is resolved in the ending phase (reportData holds the
\* remote or the local report), the session goes on to Summarized with no
\* further user action; it may only be cut short by leaving the room.
C26_ResolvedRaceSummarizes ==
    (Phase = "Ending" /\ reportData # Null) ~> (Phase = "Summarized" \/ ~Mounted)

\* C27: a fallback timer whose SessionView is no longer mounted changes
\* nothing when it fires: App's state and the state of the session mounted
\* at that moment, if any, stay as they are.
C27_LeakedTimerIsNoOp ==
    [][\A t \in timers :
          (TimerFires(t) /\ ~(Mounted /\ sess = t.id))
              => UNCHANGED <<appVars, sessVars, sending, summaryFallbackTimer, crashed>>]_vars

\* the timer of the first session has run while a second session, ended
\* and waiting, is mounted with no report
C27_Witness ==
    /\ Mounted /\ sess = 2
    /\ 1 \in fired /\ 2 \notin fired
    /\ isSessionEnded /\ waitingForSummary /\ reportData = Null

\* tool results and {role, text} fragments among the payloads
ToolResultMsgs == {m \in EventMsgs : m.json /\ Truthy(m.tool)}
FragmentMsgs == {m \in EventMsgs : m.json /\ IsTranscriptMsg(m)}

\* The states the two orders are compared in: one session with some
\* fragments, tool results and the end race behind it.
CommuteMsgs ==
    {TranscriptMsg("agent", <<"a">>), IdentifyMsg("success", "555", "Ann"),
     BookMsg, RetrieveMsg, EndConversationMsg("success")}

CommuteNext ==
    \/ HandleEndSession
    \/ PublishResolved
    \/ PublishRejected
    \/ \E t \in timers : TimerFires(t)
    \/ \E a \in BOOLEAN : Deliver(HandleTranscription(a, << <<"a">> >>))
    \/ \E m \in CommuteMsgs : Deliver(HandleData(m))

CommuteSpec == LiveInit /\ [][CommuteNext]_vars

\* C28: from any state of a mounted session, handling a transcript fragment
\* (from either channel) and then a tool result gives the same session
\* state as handling them in the other order.
C28_FragmentAndToolCommute ==
    Mounted =>
        \A m \in ToolResultMsgs :
            /\ \A a \in BOOLEAN, segs \in EventSegmentLists :
                  OnData(OnTranscription(Session, a, segs), m)
                     = OnTranscription(OnData(Session, m), a, segs)
            /\ \A f \in FragmentMsgs :
                  OnData(OnData(Session, f), m) = OnData(OnData(Session, m), f)

\* a session that has handled one fragment and one tool result
C28_Witness ==
    /\ Mounted /\ received = 2
    /\ Len(transcripts) = 1 /\ Len(toolCalls) = 1

\* C29: a book_appointment success delivered again is merged: appointments
\* never holds two entries with the same id.
C29_OneEntryPerId ==
    \A i \in 1..Len(appointments.items), j \in 1..Len(appointments.items) :
        i # j => appointments.items[i].id # appointments.items[j].id

\* C30: a retrieve_appointments success makes appointments equal to the list
\* of its payload, whatever book_appointment or an earlier
\* retrieve_appointments had put there.
C30_RetrieveReplaces ==
    [][HandleData(RetrieveMsg) => appointments' = RetrieveMsg.data]_vars

\* an appointment was booked, then the list was retrieved: only the
\* retrieved list is left
C30_Witness ==
    /\ Mounted
    /\ Len(toolCalls) = 2
    /\ toolCalls[1] = ToolCallEntry(BookMsg)
    /\ toolCalls[2] = ToolCallEntry(RetrieveMsg)
    /\ appointments = RetrieveMsg.data

\* the transcript log with its oldest entry dropped when it already holds 50
DropOldestFragment(log) == IF Len(log) = 50 THEN Tail(log) ELSE log

\* C31: an accepted fragment becomes the last entry of the transcript log;
\* the entries before it are the former log, unchanged and in the same
\* order, less its oldest entry when it held 50.  A step that accepts no
\* fragment leaves the log as it was.
C31_LogIsRecentFragments ==
    [][/\ HandleTranscription(FALSE, << <<"a">> >>)
            => transcripts' = DropOldestFragment(transcripts)
                                 \o <<TranscriptEntry("user", <<"a">>)>>
       /\ HandleData(TranscriptMsg("agent", <<"b">>))
            => transcripts' = IF LastIs("agent", <<"b">>) THEN transcripts
                              ELSE DropOldestFragment(transcripts)
                                      \o <<TranscriptEntry("agent", <<"b">>)>>
       /\ transcripts' # transcripts
            => SubSeq(transcripts', 1, Len(transcripts') - 1)
                  = DropOldestFragment(transcripts)]_vars

\* 52 fragments were accepted, the 50th being the marked one: two evictions
\* have moved it from place 50 to place 48
C31_Witness ==
    /\ received = 52
    /\ Len(transcripts) = 50
    /\ MarkedFragments(transcripts) = {48}

\* the appointments a summary message lists as booked
BookedOf(report) == report.data.appointments_booked

\* C32: when a summary is synthesized locally, by the fallback timer or by
\* the end action of the immediate-end build, its appointments_booked is
\* the list of the session's appointments with status "confirmed", in their
\* order, and holds no appointment with status "cancelled".
C32_BookedAreConfirmed ==
    [][/\ \A t \in timers :
             (Mounted /\ t.id = sess /\ TimerFires(t) /\ reportData' # reportData)
             => /\ BookedOf(reportData') = FilterConfirmed(appointments.items)
                /\ \A i \in 1..Len(BookedOf(reportData')) :
                      BookedOf(reportData')[i].status # "cancelled"
       /\ HandleEndSessionImmediate
             => /\ BookedOf(summary') = FilterConfirmed(appointments.items)
                /\ \A i \in 1..Len(BookedOf(summary')) :
                      BookedOf(summary')[i].status # "cancelled"]_vars

\* retrieve_appointments success whose payload has no data field
RetrieveNoDataMsg == ToolMsg("retrieve_appointments", "success", JUndefined)

\* the tool results that write appointments, with and without their data
ListMsgs ==
    {BookMsg, RetrieveMsg, RetrieveNoDataMsg,
     FullToolMsg("retrieve_appointments", "error", JUndefined)}

ListNext ==
    \/ HandleEndSession
    \/ PublishResolved
    \/ PublishRejected
    \/ \E t \in timers : TimerFires(t)
    \/ \E m \in ListMsgs : Deliver(HandleData(m))

ListSpec == LiveInit /\ [][ListNext]_vars

\* C33: in every reachable state of a session appointments is a list,
\* whatever accepted tool result was handled, a retrieve_appointments
\* success without a list in its data field included.
C33_AppointmentsIsList == appointments.array

\* onDisconnected of a LiveKitRoom that App no longer renders: the room
\* disconnects when it is unmounted, and its callback still calls stopSession()
LateDisconnected ==
    /\ ~crashed
    /\ sess > 0
    /\ ~Mounted
    /\ stopSession(Null)

\* Start Session can be clicked again while a token request is in flight
CanStartPending == fetches < MaxPending /\ sess + fetches < MaxSessions

\* App with a session that can only be ended: start, token responses,
\* disconnects, the end race up to the local summary, the summary view
AppNext ==
    \/ CanStartPending /\ StartSession
    \/ FetchOk("jwt")
    \/ \E r \in FetchFailReasons : FetchFail(r)
    \/ Disconnected
    \/ LateDisconnected
    \/ ViewReport
    \/ CloseSummary
    \/ HandleEndSession
    \/ PublishResolved
    \/ PublishRejected
    \/ \E t \in timers : TimerFires(t)

AppSpec == Init /\ [][AppNext]_vars

\* C34: stopSession called without a summary, as on a room disconnect,
\* leaves App's summary as it is: a disconnect notification that arrives
\* once the summary has been handed over leaves the summary displayed.
C34_DisconnectKeepsSummary ==
    [][/\ (Disconnected \/ LateDisconnected) => summary' = summary
       /\ (LateDisconnected /\ summary # Null)
             => /\ View(summary', running') = "summary"
                /\ summaryViewData' = summaryViewData]_vars

\* the summary is displayed with nothing running and no request in flight:
\* the state in which a disconnect notification of the unmounted room leaves
\* App, be it after the second of two token requests had set running again
C34_Witness ==
    /\ View(summary, running) = "summary"
    /\ IsLocalReport(summary)
    /\ ~running /\ token = "" /\ fetches = 0 /\ error = ""
    /\ sess = 1

\* C35: in every reachable state of App, running = true implies a non-empty
\* token, and so LiveKitRoom is never rendered with an empty token, under
\* every interleaving of token responses, stopSession calls and disconnects.
C35_RunningHasToken ==
    /\ running => token # ""
    /\ Mounted => token # ""

\* running was set again by a second token response while the summary of
\* the first session is displayed
C35_Witness ==
    /\ running /\ token = "jwt"
    /\ summary # Null
    /\ sess = 1 /\ fetches = 0

====
